---- MODULE Spec2Model ----
(***************************************************************************)
(* Terra::SecUtil -- secure erasure of memory.                             *)
(*                                                                         *)
(* Memory is a byte map over a small address space; address 0 is nullptr.  *)
(* The specifications share it:                                            *)
(*   SpecErase    SecureErase(void *, size_t) on arbitrary extents         *)
(*   SpecAlloc    SecureAllocator<T> called directly                       *)
(*   SpecVec      std::vector<T, SecureAllocator<T>> (SecureVector)        *)
(*   SpecArray    SecureArray<T, N> construction and destruction           *)
(*   SpecDeleter  SecureArrayDeleter / SecureObjectDeleter behind          *)
(*                std::unique_ptr and std::shared_ptr                      *)
(*   SpecTyped    the typed SecureErase overloads of secure_erase.h        *)
(*   SpecNested   a SecureVector whose elements own storage of their own   *)
(*   SpecInst     several SecureAllocator instances used interchangeably   *)
(*   SpecConc     SecureErase called from two threads                      *)
(*   SpecTypes    the element types the wrappers can be instantiated with  *)
(*   SpecRemove   elements removed from a SecureVector that keeps its      *)
(*                buffer                                                   *)
(* Every action is one call; `last` names the call and its arguments,      *)
(* `pre` is memory as the call found it, `trace` lists what the call did   *)
(* (SecureErase calls, destructor runs, ::operator delete) in order.       *)
(***************************************************************************)
EXTENDS Integers, Sequences, FiniteSets, TLC

\* ---- bounds of the model
MemSize == 6       \* addresses 1..MemSize
MaxByte == 1       \* a byte holds 0..MaxByte
MaxElem == 2       \* element values written by callers: 0..MaxElem
MaxCopies == 3     \* copies of one shared handle
MaxUser == 1       \* blocks held at a time through direct allocate calls
MaxCalls == 3      \* allocate calls, and elements constructed, per vector
MaxHolders == 2    \* elements that own storage constructed per vector
MaxInst == 2       \* template instantiations in one translation unit

\* ---- program parameters
NULL == 0          \* nullptr
SizeofT == 2       \* sizeof(T)
SizeMax == 7       \* std::numeric_limits<std::size_t>::max(), a 3-bit size_t
ArrN == 2          \* N of SecureArray<T, N>
ArrBase == 2       \* this->data() of the SecureArray<T, N> object

Addr == 1..MemSize
Byte == 0..MaxByte
Base == MaxByte + 1
SizeMod == SizeMax + 1
Elem == 0..MaxElem

VARIABLES
    mem,      \* [Addr -> Byte]: the bytes of memory
    pre,      \* mem as the last call found it
    last,     \* the last call: [op, p, n, list]
    trace,    \* what the last call did, in order: records [op, p, n, f]
    live,     \* storage in its lifetime (heap blocks not yet freed, the
              \* storage of a living object): records [base, bytes]
    vec,      \* the SecureVector<T>: [st, buf, cap, size]
    arr,      \* the SecureArray<T, N>: [st, err]
    hd,       \* the ownership handle: [kind, what, ptr, size, by, alive]
    copies,   \* [1..MaxCopies -> {"none","held","last","gone"}] shared copies
    cnt,      \* counters since the handle was made: deleter calls,
              \* SecureErase calls, constructor runs, destructor runs
    conc      \* concurrent SecureErase calls: [fp, thr], the static
              \* function pointer and each thread's [pc, buf, len, i]

vars == <<mem, pre, last, trace, live, vec, arr, hd, copies, cnt, conc>>

Call(op, p, n, list) == [op |-> op, p |-> p, n |-> n, list |-> list]
Ev(op, p, n, f) == [op |-> op, p |-> p, n |-> n, f |-> f]

Max(a, b) == IF a >= b THEN a ELSE b

RECURSIVE Pow(_, _)
Pow(b, e) == IF e = 0 THEN 1 ELSE b * Pow(b, e - 1)

\* ---------------------------------------------------------------- memory

\* The addresses of the extent [p, p + len).
Extent(p, len) == {a \in Addr : p <= a /\ a < p + len}

\* Whether [p, p + len) lies in memory the model has.
InMem(p, len) == p >= 1 /\ p + len <= MemSize + 1

AllZero(m, p, len) == \A a \in Extent(p, len) : m[a] = 0

\* An object of sizeof(T) bytes, little endian: byte i of value v.
ByteOf(v, i) == (v \div Pow(Base, i)) % Base

\* Store value v as the element at address p.
StoreElem(m, p, v) ==
    [a \in Addr |-> IF a \in Extent(p, SizeofT) THEN ByteOf(v, a - p) ELSE m[a]]

RECURSIVE LoadFrom(_, _, _)
LoadFrom(m, p, k) ==
    IF k = 0 THEN 0 ELSE m[p] + Base * LoadFrom(m, p + 1, k - 1)

\* Read the element at address p.
LoadElem(m, p) == LoadFrom(m, p, SizeofT)

\* ------------------------------------------------------- secure_erase.cpp

\* memset through the volatile function pointer: n bytes at p set to c,
\* one after the other.
RECURSIVE memset_secure_func(_, _, _, _)
memset_secure_func(m, p, c, n) ==
    IF n = 0 THEN m
    ELSE memset_secure_func([m EXCEPT ![p] = c], p + 1, c, n - 1)

\* A SecureErase that leaves the last byte of the extent alone.
SecureEraseShort(m, buffer, length) ==
    IF (buffer = NULL) \/ (length = 0) THEN m
    ELSE memset_secure_func(m, buffer, 0, length - 1)

\* void SecureErase(void *buffer, std::size_t length)
SecureErase(m, buffer, length) ==
    IF (buffer = NULL) \/ (length = 0) THEN m
    ELSE memset_secure_func(m, buffer, 0, length)

\* ------------------------------------------------------------------ idle

NoCall == Call("none", NULL, 0, <<>>)
IdleVec == [st |-> "none", buf |-> NULL, cap |-> 0, size |-> 0]
IdleArr == [st |-> "none", err |-> "none"]
IdleHd == [kind |-> "none", what |-> "none", ptr |-> NULL, size |-> 0,
           by |-> "none", alive |-> FALSE]
IdleCopies == [c \in 1..MaxCopies |-> "none"]
NThreads == 2
Threads == 1..NThreads
IdleConc ==
    [fp |-> "memset",
     thr |-> [t \in Threads |->
                 [pc |-> "idle", buf |-> NULL, len |-> 0, i |-> 0]]]
IdleCnt == [deleted |-> 0, erased |-> 0, ctor |-> 0, dtor |-> 0,
            allocs |-> 0, acquired |-> 0, deallocs |-> 0]

\* ------------------------------------------------------------- SpecErase

InitErase ==
    /\ mem \in [Addr -> Byte]
    /\ pre = mem
    /\ last = NoCall
    /\ trace = <<>>
    /\ live = {}
    /\ vec = IdleVec
    /\ arr = IdleArr
    /\ hd = IdleHd
    /\ copies = IdleCopies
    /\ cnt = IdleCnt
    /\ conc = IdleConc

\* A caller writes a byte of memory it owns.
Poke(a, v) ==
    /\ mem' = [mem EXCEPT ![a] = v]
    /\ pre' = mem
    /\ last' = Call("poke", a, v, <<>>)
    /\ trace' = <<>>
    /\ UNCHANGED conc
    /\ UNCHANGED <<live, vec, arr, hd, copies, cnt>>

\* SecureErase(buffer, length) on an extent of the caller's memory, or on
\* nullptr.
EraseCall(buffer, length) ==
    /\ buffer = NULL \/ InMem(buffer, length)
    /\ mem' = SecureErase(mem, buffer, length)
    /\ pre' = mem
    /\ last' = Call("SecureErase", buffer, length, <<>>)
    /\ trace' = <<>>
    /\ UNCHANGED conc
    /\ UNCHANGED <<live, vec, arr, hd, copies, cnt>>

NextErase ==
    \/ \E a \in Addr, v \in Byte : Poke(a, v)
    \/ \E buffer \in {NULL} \cup Addr, length \in 0..MemSize :
           EraseCall(buffer, length)

SpecErase == InitErase /\ [][NextErase]_vars

\* C1: SecureErase(buffer, length) changes no byte when buffer is null or
\* length is 0; otherwise every byte of [buffer, buffer+length) is zero
\* afterwards and every byte outside it is as it was; erasing the same
\* extent a second time changes nothing.
C1_EraseContract ==
    last.op = "SecureErase" =>
        /\ (last.p = NULL \/ last.n = 0) => mem = pre
        /\ (last.p # NULL /\ last.n > 0) =>
               \A a \in Addr :
                   mem[a] = IF a \in Extent(last.p, last.n) THEN 0 ELSE pre[a]
        /\ SecureErase(mem, last.p, last.n) = mem

\* An extent of two or more bytes, some of them nonzero, was erased while a
\* byte outside it stayed nonzero.
C1_Witness ==
    /\ last.op = "SecureErase"
    /\ last.p # NULL
    /\ last.n >= 2
    /\ \E a \in Extent(last.p, last.n) : pre[a] # 0
    /\ \E a \in Addr \ Extent(last.p, last.n) : mem[a] # 0
    /\ AllZero(mem, last.p, last.n)
\* ------------------------------------------------------------- the heap
\* A heap state is [mem, live, trace]; the handlers below map heap states
\* to heap states, appending to trace what they do.

Heap(m, lv, tr) == [mem |-> m, live |-> lv, trace |-> tr]
Note(hs, e) == [hs EXCEPT !.trace = Append(@, e)]

\* A block of `bytes` bytes occupies at least one address.
Span(bytes) == Max(bytes, 1)
Used(lv) == UNION {Extent(b.base, Span(b.bytes)) : b \in lv}
IsLive(lv, p) == \E b \in lv : b.base = p
BlockAt(lv, p) == CHOOSE b \in lv : b.base = p

\* Where ::operator new may place a block of `bytes` bytes.
CanPlace(lv, bytes) ==
    {b \in Addr : /\ InMem(b, Span(bytes))
                  /\ Extent(b, Span(bytes)) \cap Used(lv) = {}}

\* Whether [p, p + len) is memory the program may still write: nothing at
\* all, or bytes of one piece of live storage.
Writable(lv, p, len) ==
    \/ p = NULL
    \/ len = 0
    \/ \E b \in lv : Extent(p, len) \subseteq Extent(b.base, Span(b.bytes))

\* A call of SecureErase(p, len), noted in the trace.
CallErase(hs, p, len) ==
    Note([hs EXCEPT !.mem = SecureErase(@, p, len)],
         Ev("erase", p, len, Writable(hs.live, p, len)))

\* ::operator new(bytes) returning b, or throwing std::bad_alloc (b = NULL).
OperatorNew(hs, bytes, b) ==
    IF b = NULL
    THEN [hs |-> hs, ret |-> NULL, err |-> "bad_alloc"]
    ELSE [hs |-> Note([hs EXCEPT !.live = @ \cup
                                  {[base |-> b, bytes |-> bytes]}],
                      Ev("new", b, bytes, TRUE)),
          ret |-> b, err |-> "none"]

\* ::operator delete(p): the block at p goes back to the system.  The event
\* notes the block's size and whether all its bytes were zero at that time.
OperatorDelete(hs, p) ==
    LET blk == BlockAt(hs.live, p)
    IN Note([hs EXCEPT !.live = @ \ {blk}],
            Ev("free", p, blk.bytes, AllZero(hs.mem, p, blk.bytes)))

\* --------------------------------------------------- secure_allocator.h

\* The bytes asked of ::operator new for n elements, in size_t arithmetic.
AllocBytes(n) == (SizeofT * n) % SizeMod

\* An erase length that forgets the element size.
EraseBytesNoSizeof(n) == n % SizeMod

\* An erase length that runs one byte past the storage.
EraseBytesPlusOne(n) == (SizeofT * n + 1) % SizeMod

\* The length passed to SecureErase by deallocate, in size_t arithmetic.
EraseBytes(n) == (SizeofT * n) % SizeMod

\* An allocate without the size check.
allocateNoCheck(hs, n, b) ==
    OperatorNew(Note(hs, Ev("allocate", NULL, n, TRUE)), AllocBytes(n), b)

\* T *allocate(std::size_t n) const
allocate(hs, n, b) ==
    LET h0 == Note(hs, Ev("allocate", NULL, n, TRUE))
    IN IF n > SizeMax \div SizeofT
       THEN [hs |-> h0, ret |-> NULL, err |-> "bad_array_new_length"]
       ELSE OperatorNew(h0, AllocBytes(n), b)

\* A deallocate that returns the storage first and erases it afterwards.
deallocateFreeFirst(hs, p, n) ==
    LET h0 == Note(hs, Ev("deallocate", p, n, TRUE))
    IN IF p = NULL THEN h0
       ELSE LET h1 == OperatorDelete(h0, p)
            IN IF n > 0 THEN CallErase(h1, p, EraseBytes(n)) ELSE h1

\* void deallocate(T *p, std::size_t n) const noexcept
deallocate(hs, p, n) ==
    LET h0 == Note(hs, Ev("deallocate", p, n, TRUE))
    IN IF p = NULL THEN h0
       ELSE LET h1 == IF n > 0 THEN CallErase(h0, p, EraseBytes(n)) ELSE h0
            IN OperatorDelete(h1, p)

\* The addresses ::operator new may return to allocate(n): a free place, or
\* NULL for a failed acquisition; NULL alone when allocate throws before it.
Places(lv, n) ==
    IF n > SizeMax \div SizeofT THEN {NULL}
    ELSE {NULL} \cup CanPlace(lv, AllocBytes(n))

\* ------------------------------------------------------ secure_vector.h
\* std::vector<T, SecureAllocator<T>>: [st, buf, cap, size], elements in mem.

ElemAddr(buf, i) == buf + i * SizeofT

RECURSIVE CopyElems(_, _, _, _)
CopyElems(m, src, dst, k) ==
    IF k = 0 THEN m
    ELSE CopyElems(StoreElem(m, dst, LoadElem(m, src)),
                   src + SizeofT, dst + SizeofT, k - 1)

\* The count the vector hands to deallocate for its buffer.
VecReleaseCount(v) == v.cap

\* Move the elements to a new buffer of newcap elements and release the
\* old one; the vector is unchanged when allocate throws.
VecRealloc(hs, v, newcap, b) ==
    LET r == IF newcap = 0
             THEN [hs |-> hs, ret |-> NULL, err |-> "none"]
             ELSE allocate(hs, newcap, b)
    IN IF r.err # "none"
       THEN [hs |-> r.hs, vec |-> v, err |-> r.err]
       ELSE LET h1 == IF v.buf = NULL THEN r.hs
                      ELSE [r.hs EXCEPT
                               !.mem = CopyElems(@, v.buf, r.ret, v.size)]
                h2 == IF v.buf = NULL THEN h1
                      ELSE deallocate(h1, v.buf, VecReleaseCount(v))
            IN [hs |-> h2,
                vec |-> [v EXCEPT !.buf = r.ret, !.cap = newcap],
                err |-> "none"]

\* The capacity push_back grows to when the vector is full.
GrowCap(v) == v.size + Max(v.size, 1)

\* void push_back(const T &x)
push_back(hs, v, x, b) ==
    IF v.size < v.cap
    THEN [hs |-> [hs EXCEPT !.mem = StoreElem(@, ElemAddr(v.buf, v.size), x)],
          vec |-> [v EXCEPT !.size = @ + 1], err |-> "none"]
    ELSE LET r == VecRealloc(hs, v, GrowCap(v), b)
         IN IF r.err # "none" THEN r
            ELSE [hs |-> [r.hs EXCEPT
                     !.mem = StoreElem(@, ElemAddr(r.vec.buf, v.size), x)],
                  vec |-> [r.vec EXCEPT !.size = @ + 1], err |-> "none"]

\* void shrink_to_fit()
shrink_to_fit(hs, v, b) ==
    IF v.size = v.cap THEN [hs |-> hs, vec |-> v, err |-> "none"]
    ELSE LET r == VecRealloc(hs, v, v.size, b)
         IN IF r.err # "none"
            THEN [hs |-> r.hs, vec |-> v, err |-> "none"]
            ELSE r

\* A destructor that leaves the buffer allocated.
VecDtorLeak(hs, v) == hs

\* ~vector(): the elements are destroyed, then the buffer is released.
VecDtor(hs, v) ==
    IF v.buf = NULL THEN hs ELSE deallocate(hs, v.buf, VecReleaseCount(v))

\* ------------------------------------------------------------- SpecAlloc

\* Fresh memory holds no particular value: every byte the same filler here,
\* the callers' stores make the rest.
Fills == {[a \in Addr |-> g] : g \in Byte}

InitAlloc ==
    /\ mem \in Fills
    /\ pre = mem
    /\ last = NoCall
    /\ trace = <<>>
    /\ live = {}
    /\ vec = IdleVec
    /\ arr = IdleArr
    /\ hd = IdleHd
    /\ copies = IdleCopies
    /\ cnt = IdleCnt
    /\ conc = IdleConc

Commit(hs) ==
    /\ mem' = hs.mem
    /\ live' = hs.live
    /\ trace' = hs.trace
    /\ pre' = mem

Now == Heap(mem, live, <<>>)

\* The positions of the events of one kind in a trace.
At(tr, op) == {i \in DOMAIN tr : tr[i].op = op}

Count(tr, op) == Cardinality(At(tr, op))

\* A direct call of allocate(n).
AllocDirect(n, b) ==
    /\ Cardinality(live) < MaxUser
    /\ LET r == allocate(Now, n, b)
       IN /\ Commit(r.hs)
          /\ last' = Call("allocate", r.ret, n, <<r.err>>)
    /\ UNCHANGED conc
    /\ UNCHANGED <<vec, arr, hd, copies, cnt>>

\* A direct call of deallocate(p, n): p is null, or storage that allocate(n)
\* returned.
DeallocDirect(p, n) ==
    /\ \/ p = NULL
       \/ /\ n <= SizeMax \div SizeofT
          /\ \E b \in live : b.base = p /\ b.bytes = AllocBytes(n)
    /\ Commit(deallocate(Now, p, n))
    /\ last' = Call("deallocate", p, n, <<>>)
    /\ UNCHANGED conc
    /\ UNCHANGED <<vec, arr, hd, copies, cnt>>

\* The holder of a block stores x as its element i (a secret: x is
\* nonzero).
UserStore(p, i, x) ==
    /\ \E b \in live : b.base = p /\ SizeofT * (i + 1) <= b.bytes
    /\ Commit([Now EXCEPT !.mem = StoreElem(@, ElemAddr(p, i), x)])
    /\ last' = Call("store", p, i, <<>>)
    /\ UNCHANGED conc
    /\ UNCHANGED <<vec, arr, hd, copies, cnt>>

NextAlloc ==
    \/ \E n \in 0..SizeMax : \E b \in Places(live, n) : AllocDirect(n, b)
    \/ \E n \in 0..(SizeMax \div SizeofT), p \in {NULL} \cup {b.base : b \in live} :
           DeallocDirect(p, n)
    \/ \E p \in {b.base : b \in live}, i \in 0..(SizeMax \div SizeofT) :
           UserStore(p, i, MaxElem)

SpecAlloc == InitAlloc /\ [][NextAlloc]_vars

\* ---------------------------------------------------------------- SpecVec

\* Commit a heap state of the vector and count as TestSecureAllocator
\* does: Allocations++ on every allocate call, Deallocations++ on every
\* deallocate call; acquired counts the allocate calls that returned
\* storage, ctor the elements constructed.
CommitVec(hs, v) ==
    /\ Commit(hs)
    /\ cnt' = [cnt EXCEPT !.allocs = @ + Count(hs.trace, "allocate"),
                          !.acquired = @ + Count(hs.trace, "new"),
                          !.deallocs = @ + Count(hs.trace, "deallocate"),
                          !.ctor = @ + Max(v.size - vec.size, 0)]

\* Allocations = 0; Deallocations = 0; SecureVector<T> vec;
VecConstruct ==
    /\ vec.st \in {"none", "dead"}
    /\ vec' = [st |-> "alive", buf |-> NULL, cap |-> 0, size |-> 0]
    /\ Commit(Now)
    /\ cnt' = IdleCnt
    /\ last' = Call("vector", NULL, 0, <<>>)
    /\ UNCHANGED conc
    /\ UNCHANGED <<arr, hd, copies>>

\* vec.push_back(x)
VecPushBack(x, b) ==
    /\ vec.st = "alive"
    /\ cnt.allocs < MaxCalls /\ cnt.ctor < MaxCalls
    /\ IF vec.size < vec.cap THEN b = NULL ELSE b \in Places(live, GrowCap(vec))
    /\ LET r == push_back(Now, vec, x, b)
       IN /\ CommitVec(r.hs, r.vec)
          /\ vec' = r.vec
          /\ last' = Call("push_back", vec.buf, x, <<>>)
    /\ UNCHANGED conc
    /\ UNCHANGED <<arr, hd, copies>>

\* vec.pop_back()
VecPopBack ==
    /\ vec.st = "alive"
    /\ vec.size > 0
    /\ vec' = [vec EXCEPT !.size = @ - 1]
    /\ Commit(Now)
    /\ last' = Call("pop_back", NULL, 0, <<>>)
    /\ UNCHANGED conc
    /\ UNCHANGED <<arr, hd, copies, cnt>>

\* vec.shrink_to_fit()
VecShrinkToFit(b) ==
    /\ vec.st = "alive"
    /\ cnt.allocs < MaxCalls
    /\ IF vec.size = vec.cap \/ vec.size = 0 THEN b = NULL
       ELSE b \in Places(live, vec.size)
    /\ LET r == shrink_to_fit(Now, vec, b)
       IN /\ CommitVec(r.hs, r.vec)
          /\ vec' = r.vec
          /\ last' = Call("shrink_to_fit", vec.buf, 0, <<>>)
    /\ UNCHANGED conc
    /\ UNCHANGED <<arr, hd, copies>>

\* vec goes out of scope.
VecDestroy ==
    /\ vec.st = "alive"
    /\ CommitVec(VecDtor(Now, vec), vec)
    /\ vec' = [st |-> "dead", buf |-> NULL, cap |-> 0, size |-> 0]
    /\ last' = Call("~vector", vec.buf, vec.cap, <<>>)
    /\ UNCHANGED conc
    /\ UNCHANGED <<arr, hd, copies>>

NextVec ==
    \/ VecConstruct
    \/ \E x \in Elem, b \in {NULL} \cup Addr : VecPushBack(x, b)
    \/ VecPopBack
    \/ \E b \in {NULL} \cup Addr : VecShrinkToFit(b)
    \/ VecDestroy

SpecVec == InitAlloc /\ [][NextVec]_vars

\* C2 (as amended): deallocate(p, n) on null only returns: no erase, no
\* free, no byte changed.  On storage from allocate(n) with n > 0 it makes
\* exactly one SecureErase call, of n * sizeof(T) bytes at p, and then, after
\* it, hands p to ::operator delete.  With n = 0 it makes no SecureErase call
\* and hands p to ::operator delete.
C2_DeallocateErasesThenFrees ==
    last.op = "deallocate" =>
        /\ last.p = NULL =>
               /\ trace = <<Ev("deallocate", NULL, last.n, TRUE)>>
               /\ mem = pre
        /\ (last.p # NULL /\ last.n > 0) =>
               /\ Len(trace) = 3
               /\ trace[2] = Ev("erase", last.p, SizeofT * last.n, TRUE)
               /\ trace[3].op = "free" /\ trace[3].p = last.p
               /\ ~IsLive(live, last.p)
        /\ (last.p # NULL /\ last.n = 0) =>
               /\ Len(trace) = 2
               /\ trace[2].op = "free" /\ trace[2].p = last.p
               /\ mem = pre
               /\ ~IsLive(live, last.p)

\* Storage of two elements holding nonzero bytes was erased and then freed.
C2_Witness ==
    /\ last.op = "deallocate"
    /\ last.p # NULL
    /\ last.n = 2
    /\ \E a \in Extent(last.p, SizeofT * last.n) : pre[a] # 0
    /\ AllZero(mem, last.p, SizeofT * last.n)
    /\ At(trace, "erase") = {2}
    /\ At(trace, "free") = {3}

\* C2 as first stated: every deallocate(p, n) with p non-null performs
\* exactly one erase, of n * sizeof(T) bytes at p, before the free.
C2_Original ==
    (last.op = "deallocate" /\ last.p # NULL) =>
        /\ Cardinality(At(trace, "erase")) = 1
        /\ \A i \in At(trace, "erase") :
               /\ trace[i].p = last.p
               /\ trace[i].n = SizeofT * last.n
               /\ \A j \in At(trace, "free") : i < j

\* C3: whenever the vector returns a buffer to the system (on growth, on
\* shrink_to_fit, on destruction), it releases it with the element count it
\* acquired it with, all bytes of the block are zero at the moment of the
\* free, and no SecureErase call is made on storage already freed.
C3_BuffersZeroWhenFreed ==
    last.op \in {"push_back", "shrink_to_fit", "~vector"} =>
        /\ \A i \in At(trace, "free") :
               /\ trace[i].f
               /\ \E j \in At(trace, "deallocate") :
                      /\ j < i
                      /\ trace[j].p = trace[i].p
                      /\ SizeofT * trace[j].n = trace[i].n
        /\ \A i \in At(trace, "erase") : trace[i].f

\* shrink_to_fit moved the elements to a smaller buffer and released a
\* buffer of two elements that held nonzero bytes.
C3_Witness ==
    /\ last.op = "shrink_to_fit"
    /\ \E i \in At(trace, "free") :
           /\ trace[i].n = 2 * SizeofT
           /\ \E a \in Extent(trace[i].p, trace[i].n) : pre[a] # 0
           /\ AllZero(mem, trace[i].p, trace[i].n)
    /\ vec.cap = 1

\* ------------------------------------------------------- secure_array.h
\* One SecureArray<T, N> object; its N elements are the bytes of mem at
\* ArrBase.  arr.st: "none" (no object), "alive", "failed" (the constructor
\* threw), "gone" (destroyed).

ArrBytes == ArrN * SizeofT
ArrElems(m) == [i \in 1..ArrN |-> LoadElem(m, ElemAddr(ArrBase, i - 1))]

\* All sequences over S of length at most n.
SeqsUpTo(S, n) == UNION {[1..k -> S] : k \in 0..n}

\* std::copy(list.begin(), list.end(), dst)
RECURSIVE CopyList(_, _, _)
CopyList(m, list, dst) ==
    IF list = <<>> THEN m
    ELSE CopyList(StoreElem(m, dst, Head(list)), Tail(list), dst + SizeofT)

\* A constructor that rejects only lists longer than the array.
SecureArrayCtorLenient(m, list) ==
    IF Len(list) > ArrN
    THEN [mem |-> m, st |-> "failed", err |-> "invalid_argument"]
    ELSE [mem |-> CopyList(m, list, ArrBase), st |-> "alive", err |-> "none"]

\* A constructor that copies what fits and never throws.
SecureArrayCtorNoCheck(m, list) ==
    [mem |-> CopyList(m, SubSeq(list, 1, IF Len(list) < ArrN THEN Len(list) ELSE ArrN),
                      ArrBase),
     st |-> "alive", err |-> "none"]

\* SecureArray(std::initializer_list<T> list)
SecureArrayCtor(m, list) ==
    IF Len(list) # ArrN
    THEN [mem |-> m, st |-> "failed", err |-> "invalid_argument"]
    ELSE [mem |-> CopyList(m, list, ArrBase), st |-> "alive", err |-> "none"]

\* A destructor erase that counts elements, not bytes.
DtorEraseBytesNoSizeof == ArrN

\* The length ~SecureArray hands to SecureErase.
DtorEraseBytes == (ArrN * SizeofT) % SizeMod

\* virtual ~SecureArray(): the body erases the storage; the std::array base
\* is destroyed after the body.  The event of the base notes whether every
\* element read as zero by then.
SecureArrayDtor(hs) ==
    LET h1 == CallErase(hs, ArrBase, DtorEraseBytes)
    IN Note(h1, Ev("~array", ArrBase, ArrBytes,
                   \A i \in 1..ArrN : ArrElems(h1.mem)[i] = 0))

\* ------------------------------------------------------------- SpecArray

InitArray ==
    /\ mem \in Fills
    /\ pre = mem
    /\ last = NoCall
    /\ trace = <<>>
    /\ live = {}
    /\ vec = IdleVec
    /\ arr = IdleArr
    /\ hd = IdleHd
    /\ copies = IdleCopies
    /\ cnt = IdleCnt
    /\ conc = IdleConc

\* SecureArray<T, N> a;  -- the elements are left as memory holds them.
ArrDefault ==
    /\ arr.st # "alive"
    /\ arr' = [st |-> "alive", err |-> "none"]
    /\ Commit([Now EXCEPT !.live = {[base |-> ArrBase, bytes |-> ArrBytes]}])
    /\ last' = Call("SecureArray()", ArrBase, 0, <<>>)
    /\ UNCHANGED conc
    /\ UNCHANGED <<vec, hd, copies, cnt>>

\* SecureArray<T, N> a = {list};
ArrInitList(list) ==
    /\ arr.st # "alive"
    /\ LET r == SecureArrayCtor(mem, list)
       IN /\ arr' = [st |-> r.st, err |-> r.err]
          /\ Commit([Now EXCEPT !.mem = r.mem,
                             !.live = IF r.st = "alive" THEN {[base |-> ArrBase, bytes |-> ArrBytes]}
                                      ELSE {}])
    /\ last' = Call("SecureArray(list)", ArrBase, Len(list), list)
    /\ UNCHANGED conc
    /\ UNCHANGED <<vec, hd, copies, cnt>>

\* a[i] = x;
ArrStore(i, x) ==
    /\ arr.st = "alive"
    /\ Commit([Now EXCEPT !.mem = StoreElem(@, ElemAddr(ArrBase, i), x)])
    /\ last' = Call("store", ArrBase, i, <<>>)
    /\ UNCHANGED conc
    /\ UNCHANGED <<vec, arr, hd, copies, cnt>>

\* a goes out of scope.
ArrDestroy ==
    /\ arr.st = "alive"
    /\ Commit([SecureArrayDtor(Now) EXCEPT !.live = {}])
    /\ arr' = [st |-> "gone", err |-> "none"]
    /\ last' = Call("~SecureArray", ArrBase, 0, <<>>)
    /\ UNCHANGED conc
    /\ UNCHANGED <<vec, hd, copies, cnt>>

NextArray ==
    \/ ArrDefault
    \/ \E list \in SeqsUpTo(Elem, ArrN + 1) : ArrInitList(list)
    \/ \E i \in 0..(ArrN - 1), x \in Elem : ArrStore(i, x)
    \/ ArrDestroy

SpecArray == InitArray /\ [][NextArray]_vars

\* C4: the destructor of SecureArray<T, N> erases exactly the N * sizeof(T)
\* bytes of the array's storage, whatever they hold, as its first step,
\* before the std::array base is destroyed; every element reads as zero from
\* then on, and no byte outside the storage changes.
C4_DtorErasesStorageFirst ==
    last.op = "~SecureArray" =>
        /\ Len(trace) = 2
        /\ trace[1] = Ev("erase", ArrBase, ArrN * SizeofT, TRUE)
        /\ trace[2] = Ev("~array", ArrBase, ArrN * SizeofT, TRUE)
        /\ \A i \in 1..ArrN : ArrElems(mem)[i] = 0
        /\ \A a \in Addr :
               mem[a] = IF a \in Extent(ArrBase, ArrN * SizeofT) THEN 0
                        ELSE pre[a]

\* An array whose every element was nonzero was destroyed, next to nonzero
\* bytes that are not part of it.
C4_Witness ==
    /\ last.op = "~SecureArray"
    /\ \A i \in 1..ArrN : ArrElems(pre)[i] # 0
    /\ \A a \in Addr \ Extent(ArrBase, ArrBytes) : mem[a] # 0
    /\ AllZero(mem, ArrBase, ArrBytes)

\* C9 (as amended): constructing a SecureArray<T, N> from an initializer
\* list of length k succeeds when k = N, and the array then holds the list
\* element for element; for every k < N the constructor fails with
\* invalid_argument and copies nothing.
C9_InitListMustMatchSize ==
    (last.op = "SecureArray(list)" /\ last.n <= ArrN) =>
        /\ last.n = ArrN =>
               /\ arr = [st |-> "alive", err |-> "none"]
               /\ ArrElems(mem) = last.list
               /\ \A a \in Addr \ Extent(ArrBase, ArrBytes) : mem[a] = pre[a]
        /\ last.n < ArrN =>
               /\ arr = [st |-> "failed", err |-> "invalid_argument"]
               /\ mem = pre

\* A list of exactly N nonzero elements was copied into storage that held
\* other values.
C9_Witness ==
    /\ last.op = "SecureArray(list)"
    /\ last.n = ArrN
    /\ \A i \in 1..ArrN : last.list[i] # 0
    /\ ArrElems(pre) # last.list
    /\ ArrElems(mem) = last.list
    /\ arr.st = "alive"

\* C9 as first stated: any list of length k <= N constructs the array, the
\* first k elements equal to the list and the other N - k elements zero.
C9_Original ==
    (last.op = "SecureArray(list)" /\ last.n <= ArrN) =>
        /\ arr.st = "alive"
        /\ \A i \in 1..ArrN :
               ArrElems(mem)[i] = IF i <= last.n THEN last.list[i] ELSE 0

\* C10: an initializer list longer than N makes the constructor fail with
\* invalid_argument before anything is copied: no byte changes, no object
\* exists afterwards and no destructor runs.
C10_TooLongListRejected ==
    (last.op = "SecureArray(list)" /\ last.n > ArrN) =>
        /\ arr = [st |-> "failed", err |-> "invalid_argument"]
        /\ mem = pre
        /\ trace = <<>>
        /\ live = {}

\* A list of N + 1 elements, differing from what the storage holds, was
\* rejected.
C10_Witness ==
    /\ last.op = "SecureArray(list)"
    /\ last.n = ArrN + 1
    /\ \E i \in 1..ArrN : last.list[i] # ArrElems(mem)[i]
    /\ arr.err = "invalid_argument"

\* ----------------------------------------------------- secure_deleter.h
\* One pointee (a heap array or a single heap object of T) behind one
\* ownership handle.  hd.kind is "unique" or "shared", hd.what "array" or
\* "object", hd.ptr the owned pointer, hd.size the size field of the
\* deleter, hd.by "make" for the Make... helpers and "custom" for a handle
\* built by hand.  copies[c] is "held" while copy c of a shared handle holds
\* a reference, "last" when it has dropped the last reference and is about
\* to run the deleter, "gone" afterwards.

\* The elements of the array new T[...] placed at p.
ElemsAt(lv, p) == BlockAt(lv, p).bytes \div SizeofT

\* Run the destructors of the first k elements at p, last element first.
RECURSIVE RunDtors(_, _, _)
RunDtors(hs, p, k) ==
    IF k = 0 THEN hs
    ELSE RunDtors(Note(hs, Ev("dtor", ElemAddr(p, k - 1), SizeofT,
                              AllZero(hs.mem, ElemAddr(p, k - 1), SizeofT))),
                  p, k - 1)

\* delete[] array
DeleteArray(hs, array) ==
    IF array = NULL THEN hs
    ELSE OperatorDelete(RunDtors(hs, array, ElemsAt(hs.live, array)), array)

\* delete object
DeleteObject(hs, object) ==
    IF object = NULL THEN hs
    ELSE OperatorDelete(RunDtors(hs, object, 1), object)

\* An array deleter that erases size bytes instead of size elements.
ArrayEraseBytesNoSizeof(size) == size % SizeMod

\* size * sizeof(T), in size_t arithmetic
ArrayEraseBytes(size) == (size * SizeofT) % SizeMod

\* An array deleter that runs delete[] first and erases afterwards.
SecureArrayDeleterDeleteFirst(hs, size, array) ==
    LET h0 == Note(hs, Ev("deleter", array, size, TRUE))
        h1 == DeleteArray(h0, array)
    IN CallErase(h1, array, ArrayEraseBytes(size))

\* An array deleter that erases the array it is handed, whatever its size
\* field says.
SecureArrayDeleterWholeArray(hs, size, array) ==
    LET h0 == Note(hs, Ev("deleter", array, size, TRUE))
        h1 == CallErase(h0, array,
                        IF array = NULL THEN 0
                        ELSE BlockAt(hs.live, array).bytes)
    IN DeleteArray(h1, array)

\* void SecureArrayDeleter<T>::operator()(T *array) const noexcept
SecureArrayDeleter(hs, size, array) ==
    LET h0 == Note(hs, Ev("deleter", array, size, TRUE))
        h1 == CallErase(h0, array, ArrayEraseBytes(size))
    IN DeleteArray(h1, array)

\* An object deleter that deletes without erasing.
SecureObjectDeleterNoErase(hs, object) ==
    DeleteObject(Note(hs, Ev("deleter", object, 1, TRUE)), object)

\* An object deleter that deletes first and erases afterwards.
SecureObjectDeleterFreeFirst(hs, object) ==
    LET h0 == Note(hs, Ev("deleter", object, 1, TRUE))
        h1 == DeleteObject(h0, object)
    IN CallErase(h1, object, SizeofT)

\* void SecureObjectDeleter<T>::operator()(T *object) const noexcept
SecureObjectDeleter(hs, object) ==
    LET h0 == Note(hs, Ev("deleter", object, 1, TRUE))
        h1 == CallErase(h0, object, SizeofT)
    IN DeleteObject(h1, object)

\* The deleter of handle h, invoked on pointer ptr.
Deleter(hs, h, ptr) ==
    IF h.what = "array" THEN SecureArrayDeleter(hs, h.size, ptr)
    ELSE SecureObjectDeleter(hs, ptr)

\* A release() that runs the deleter, as reset() does.
unique_release_deleting(hs, h) ==
    [hs |-> IF h.ptr = NULL THEN hs ELSE Deleter(hs, h, h.ptr),
     hd |-> [h EXCEPT !.ptr = NULL]]

\* std::unique_ptr::release(): the handle gives up the pointer and does
\* nothing to the pointee.
unique_release(hs, h) == [hs |-> hs, hd |-> [h EXCEPT !.ptr = NULL]]

\* std::unique_ptr::reset() and ~unique_ptr(): the deleter runs if a pointer
\* is owned.
unique_reset(hs, h) ==
    [hs |-> IF h.ptr = NULL THEN hs ELSE Deleter(hs, h, h.ptr),
     hd |-> [h EXCEPT !.ptr = NULL]]

\* SecureArrayDeleter() : size{0}
DefaultArrayDeleterSize == 0

\* The size a Make...SecureArray helper stores in the deleter for an array
\* of `size` elements.
MakeArrayDeleterSize(size) == size

\* ----------------------------------------------------------- SpecDeleter

InitDeleter ==
    /\ mem \in Fills
    /\ pre = mem
    /\ last = NoCall
    /\ trace = <<>>
    /\ live = {}
    /\ vec = IdleVec
    /\ arr = IdleArr
    /\ hd = IdleHd
    /\ copies = IdleCopies
    /\ cnt = IdleCnt
    /\ conc = IdleConc

\* Commit a heap state and add what its trace shows to the counters.
CommitCounted(hs) ==
    /\ Commit(hs)
    /\ cnt' = [cnt EXCEPT !.deleted = @ + Count(hs.trace, "deleter"),
                          !.erased = @ + Count(hs.trace, "erase"),
                          !.dtor = @ + Count(hs.trace, "dtor")]

Held == {c \in 1..MaxCopies : copies[c] = "held"}

\* A handle on new T[size]: MakeUniqueSecureArray / MakeSharedSecureArray
\* (by = "make"), or a unique_ptr / shared_ptr built by hand with a
\* SecureArrayDeleter<T>{dsize} (by = "custom").  A behaviour follows one
\* handle from its making, as a test does.
NewArrayHandle(kind, by, size, dsize, b) ==
    /\ hd.kind = "none"
    /\ by = "make" => dsize = MakeArrayDeleterSize(size)
    /\ b \in {NULL} \cup CanPlace(live, AllocBytes(size))
    /\ LET r == OperatorNew(Now, AllocBytes(size), b)
       IN /\ Commit(r.hs)
          /\ last' = Call("new[]", r.ret, size, <<>>)
          /\ IF r.err # "none"
             THEN UNCHANGED <<hd, copies, cnt>>
             ELSE /\ hd' = [kind |-> kind, what |-> "array", ptr |-> r.ret,
                            size |-> dsize, by |-> by, alive |-> TRUE]
                  /\ copies' = IF kind = "shared"
                               THEN [IdleCopies EXCEPT ![1] = "held"]
                               ELSE IdleCopies
                  /\ cnt' = [IdleCnt EXCEPT !.ctor = size]
    /\ UNCHANGED conc
    /\ UNCHANGED <<vec, arr>>

\* A handle on new T(...): MakeUniqueSecureObject / MakeSharedSecureObject,
\* or one built by hand with a SecureObjectDeleter<T>.
NewObjectHandle(kind, by, b) ==
    /\ hd.kind = "none"
    /\ b \in {NULL} \cup CanPlace(live, SizeofT)
    /\ LET r == OperatorNew(Now, SizeofT, b)
       IN /\ Commit(r.hs)
          /\ last' = Call("new", r.ret, 1, <<>>)
          /\ IF r.err # "none"
             THEN UNCHANGED <<hd, copies, cnt>>
             ELSE /\ hd' = [kind |-> kind, what |-> "object", ptr |-> r.ret,
                            size |-> 0, by |-> by, alive |-> TRUE]
                  /\ copies' = IF kind = "shared"
                               THEN [IdleCopies EXCEPT ![1] = "held"]
                               ELSE IdleCopies
                  /\ cnt' = [IdleCnt EXCEPT !.ctor = 1]
    /\ UNCHANGED conc
    /\ UNCHANGED <<vec, arr>>

\* foo[i] = x, or foo->value = x, through a handle that owns the pointee
\* (a secret: x is nonzero).
HandleStore(i, x) ==
    /\ hd.alive
    /\ hd.ptr # NULL
    /\ hd.kind = "shared" => Held # {}
    /\ i < ElemsAt(live, hd.ptr)
    /\ Commit([Now EXCEPT !.mem = StoreElem(@, ElemAddr(hd.ptr, i), x)])
    /\ last' = Call("store", hd.ptr, i, <<>>)
    /\ UNCHANGED conc
    /\ UNCHANGED <<vec, arr, hd, copies, cnt>>

\* foo.release()
UniqueRelease ==
    /\ hd.alive /\ hd.kind = "unique"
    /\ LET r == unique_release(Now, hd)
       IN /\ CommitCounted(r.hs)
          /\ hd' = r.hd
    /\ last' = Call("release", hd.ptr, hd.size, <<>>)
    /\ UNCHANGED conc
    /\ UNCHANGED <<vec, arr, copies>>

\* foo.reset()
UniqueReset ==
    /\ hd.alive /\ hd.kind = "unique"
    /\ LET r == unique_reset(Now, hd)
       IN /\ CommitCounted(r.hs)
          /\ hd' = r.hd
    /\ last' = Call("reset", hd.ptr, hd.size, <<>>)
    /\ UNCHANGED conc
    /\ UNCHANGED <<vec, arr, copies>>

\* foo goes out of scope.
UniqueDestroy ==
    /\ hd.alive /\ hd.kind = "unique"
    /\ LET r == unique_reset(Now, hd)
       IN /\ CommitCounted(r.hs)
          /\ hd' = [r.hd EXCEPT !.alive = FALSE]
    /\ last' = Call("~unique_ptr", hd.ptr, hd.size, <<>>)
    /\ UNCHANGED conc
    /\ UNCHANGED <<vec, arr, copies>>

\* A new copy c of the shared handle is made from a copy that holds a
\* reference.
SharedCopy(c) ==
    /\ hd.alive /\ hd.kind = "shared"
    /\ Held # {}
    /\ copies[c] = "none"
    /\ copies' = [copies EXCEPT ![c] = "held"]
    /\ Commit(Now)
    /\ last' = Call("copy", hd.ptr, c, <<>>)
    /\ UNCHANGED conc
    /\ UNCHANGED <<vec, arr, hd, cnt>>

\* Copy c is reset or destroyed: it gives up its reference in one atomic
\* decrement of the use count; the copy that brings it to zero goes on to
\* run the deleter.
SharedDrop(c) ==
    /\ hd.alive /\ hd.kind = "shared"
    /\ copies[c] = "held"
    /\ copies' = [copies EXCEPT ![c] = IF Held = {c} THEN "last" ELSE "gone"]
    /\ Commit(Now)
    /\ last' = Call("drop", hd.ptr, c, <<>>)
    /\ UNCHANGED conc
    /\ UNCHANGED <<vec, arr, hd, cnt>>

\* The copy that dropped the last reference runs the deleter on the owned
\* pointer.
SharedDispose(c) ==
    /\ hd.alive /\ hd.kind = "shared"
    /\ copies[c] = "last"
    /\ CommitCounted(Deleter(Now, hd, hd.ptr))
    /\ copies' = [copies EXCEPT ![c] = "gone"]
    /\ hd' = [hd EXCEPT !.ptr = NULL, !.alive = FALSE]
    /\ last' = Call("dispose", hd.ptr, hd.size, <<c>>)
    /\ UNCHANGED conc
    /\ UNCHANGED <<vec, arr>>

Counts == 0..(SizeMax \div SizeofT)

NextDeleter ==
    \/ \E kind \in {"unique", "shared"}, by \in {"make", "custom"},
          size \in Counts, dsize \in Counts, b \in {NULL} \cup Addr :
           dsize <= size /\ NewArrayHandle(kind, by, size, dsize, b)
    \/ \E kind \in {"unique", "shared"}, by \in {"make", "custom"},
          b \in {NULL} \cup Addr :
           NewObjectHandle(kind, by, b)
    \/ \E i \in Counts : HandleStore(i, MaxElem)
    \/ UniqueRelease
    \/ UniqueReset
    \/ UniqueDestroy
    \/ \E c \in 1..MaxCopies : SharedCopy(c)
    \/ \E c \in 1..MaxCopies : SharedDrop(c)
    \/ \E c \in 1..MaxCopies : SharedDispose(c)

SpecDeleter == InitDeleter /\ [][NextDeleter]_vars

\* Memory m with the extent [p, p + len) zeroed.
Zeroed(m, p, len) ==
    [a \in Addr |-> IF a \in Extent(p, len) THEN 0 ELSE m[a]]

\* C5: when a handle that owns a heap array goes out of scope (a unique
\* handle is destroyed, the last copy of a shared handle is dropped), its
\* SecureArrayDeleter with count c is invoked exactly once, erases exactly
\* c * sizeof(T) bytes at the array, and only then are the array's elements
\* destroyed and its storage released.  For a handle from
\* MakeUniqueSecureArray or MakeSharedSecureArray c is the number of
\* elements allocated, so the whole array is zero when it is released.
C5_ArrayDeleterErasesCountThenFrees ==
    (hd.what = "array" /\ last.op \in {"~unique_ptr", "dispose"}
                       /\ last.p # NULL) =>
        /\ trace[1] = Ev("deleter", last.p, last.n, TRUE)
        /\ trace[2] = Ev("erase", last.p, last.n * SizeofT, TRUE)
        /\ At(trace, "deleter") = {1}
        /\ At(trace, "erase") = {2}
        /\ At(trace, "free") = {Len(trace)}
        /\ trace[Len(trace)].p = last.p
        /\ cnt.deleted = 1 /\ cnt.erased = 1
        /\ mem = Zeroed(pre, last.p, last.n * SizeofT)
        /\ ~IsLive(live, last.p)
        /\ hd.by = "make" =>
               /\ last.n * SizeofT = trace[Len(trace)].n
               /\ last.n = cnt.ctor
               /\ trace[Len(trace)].f

\* A unique handle from MakeUniqueSecureArray on two elements, nonzero when
\* the handle went out of scope, was destroyed.
C5_Witness ==
    /\ hd.what = "array" /\ hd.kind = "unique" /\ hd.by = "make"
    /\ last.op = "~unique_ptr"
    /\ last.p # NULL
    /\ last.n = 2
    /\ \A i \in 0..1 : LoadElem(pre, ElemAddr(last.p, i)) # 0
    /\ AllZero(mem, last.p, 2 * SizeofT)
    /\ \E a \in Addr : mem[a] # 0

\* C6: however many copies of a shared handle with an erasing deleter are
\* made and in whatever order they are dropped, the deleter runs once and
\* erases once, it runs only after every copy has given up its reference,
\* and while any copy holds a reference the pointee is neither erased nor
\* freed.
C6_SharedDeleterOnceAtLastDrop ==
    hd.kind = "shared" =>
        /\ cnt.deleted <= 1
        /\ cnt.erased = cnt.deleted
        /\ cnt.deleted = 1 <=>
               \A c \in 1..MaxCopies : copies[c] \in {"none", "gone"}
        /\ last.op = "dispose" => Held = {}
        /\ Held # {} => IsLive(live, hd.ptr)

\* Three copies of a shared handle on an object were dropped, the copy made
\* first not being the last to go, and the deleter ran in the third.
C6_Witness ==
    /\ hd.kind = "shared" /\ hd.what = "object"
    /\ last.op = "dispose"
    /\ last.list = <<3>>
    /\ \A c \in 1..3 : copies[c] = "gone"
    /\ cnt.deleted = 1 /\ cnt.erased = 1
    /\ \E a \in Extent(last.p, SizeofT) : pre[a] # 0

\* C7: release() on a unique handle leaves the handle holding null and
\* touches nothing else: no deleter call, no erase, no byte changed, the
\* array still allocated; and destroying the handle afterwards, empty, runs
\* no deleter and erases nothing either.
C7_ReleaseNeverErases ==
    /\ last.op = "release" =>
           /\ hd.ptr = NULL
           /\ trace = <<>>
           /\ mem = pre
           /\ last.p # NULL =>
                  /\ IsLive(live, last.p)
                  /\ cnt.deleted = 0 /\ cnt.erased = 0
    /\ (last.op = "~unique_ptr" /\ last.p = NULL) =>
           /\ trace = <<>>
           /\ mem = pre
    /\ (hd.kind = "unique" /\ ~hd.alive /\ live # {}) =>
           cnt.deleted = 0 /\ cnt.erased = 0

\* A handle from MakeUniqueSecureArray was released while its array held
\* nonzero bytes and then destroyed: the array is still allocated and still
\* holds them.
C7_Witness ==
    /\ hd.kind = "unique" /\ hd.what = "array" /\ hd.by = "make"
    /\ last.op = "~unique_ptr"
    /\ last.p = NULL
    /\ \E b \in live : b.bytes = 2 * SizeofT /\ ~AllZero(mem, b.base, b.bytes)
    /\ cnt.deleted = 0

\* C8: when a handle with a SecureObjectDeleter is destroyed or reset while
\* it owns an object, the deleter is invoked once, erases exactly sizeof(T)
\* bytes at the object, then the object's destructor runs, once, and the
\* storage is released; one construction is matched by one destruction.
C8_ObjectDeleterErasesThenDeletes ==
    (hd.what = "object" /\ last.op \in {"~unique_ptr", "reset", "dispose"}
                        /\ last.p # NULL) =>
        /\ Len(trace) = 4
        /\ trace[1] = Ev("deleter", last.p, 1, TRUE)
        /\ trace[2] = Ev("erase", last.p, SizeofT, TRUE)
        /\ trace[3].op = "dtor" /\ trace[3].p = last.p
        /\ trace[4].op = "free" /\ trace[4].p = last.p
        /\ cnt.deleted = 1 /\ cnt.erased = 1
        /\ cnt.ctor = 1 /\ cnt.dtor = 1
        /\ mem = Zeroed(pre, last.p, SizeofT)
        /\ live = {}

\* A unique handle on an object with a nonzero value was reset.
C8_Witness ==
    /\ hd.what = "object" /\ hd.kind = "unique"
    /\ last.op = "reset"
    /\ last.p # NULL
    /\ LoadElem(pre, last.p) # 0
    /\ LoadElem(mem, last.p) = 0
    /\ cnt.dtor = 1
    /\ \E a \in Addr : mem[a] # 0

\* ------------------------------------------------- allocation requests

\* C11: allocate(n) throws its length error, acquiring nothing, exactly when
\* n * sizeof(T) does not fit size_t; for every other n it asks
\* ::operator new for n * sizeof(T) bytes, the product taken without
\* wraparound, and a failure of ::operator new reaches the caller with
\* nothing acquired.
C11_AllocateRejectsOverflow ==
    last.op = "allocate" =>
        /\ last.list = <<"bad_array_new_length">> <=>
               SizeofT * last.n > SizeMax
        /\ SizeofT * last.n <= SizeMax =>
               last.list \in {<<"none">>, <<"bad_alloc">>}
        /\ last.list # <<"none">> =>
               /\ last.p = NULL
               /\ At(trace, "new") = {}
               /\ Cardinality(live) < MaxUser
               /\ mem = pre
        /\ last.list = <<"none">> =>
               /\ last.p # NULL
               /\ trace = <<Ev("allocate", NULL, last.n, TRUE),
                            Ev("new", last.p, SizeofT * last.n, TRUE)>>
               /\ [base |-> last.p, bytes |-> SizeofT * last.n] \in live
               /\ Cardinality(live) <= MaxUser

\* allocate was called with a count whose byte size wraps around in size_t
\* and threw.
C11_Witness ==
    /\ last.op = "allocate"
    /\ SizeofT * last.n > SizeMax
    /\ (SizeofT * last.n) % SizeMod < SizeofT
    /\ last.list = <<"bad_array_new_length">>
    /\ live = {}

SizeofPtr == 3

\* Store pointer value q in the pointer variable at address p.
StorePtr(m, p, q) ==
    [a \in Addr |-> IF a \in Extent(p, SizeofPtr) THEN ByteOf(q, a - p)
                    ELSE m[a]]

\* Read the pointer variable at address p.
LoadPtr(m, p) == LoadFrom(m, p, SizeofPtr)

\* void SecureErase(std::span<T> values)
SecureEraseSpan(hs, v) ==
    [hs |-> CallErase(hs, v.buf, (v.size * SizeofT) % SizeMod), obj |-> v]

\* void SecureErase(std::basic_string<T> &value)
SecureEraseString(hs, v) ==
    [hs |-> CallErase(hs, v.buf, (v.size * SizeofT) % SizeMod), obj |-> v]

\* void SecureErase(std::array<T, N> &array)
SecureEraseArray(hs, v) ==
    [hs |-> CallErase(hs, v.buf, (v.size * SizeofT) % SizeMod), obj |-> v]

\* A vector overload that takes size() for the byte count.
SecureEraseVectorNoSizeof(hs, v) ==
    [hs |-> CallErase(hs, v.buf, v.size % SizeMod), obj |-> v]

\* void SecureErase(std::vector<T> &vector)
SecureEraseVector(hs, v) ==
    [hs |-> CallErase(hs, v.buf, (v.size * SizeofT) % SizeMod), obj |-> v]

\* void SecureErase(T &value), T arithmetic, enum or pointer
SecureEraseValue(hs, v) ==
    [hs |-> CallErase(hs, v.buf, IF v.st = "pointer" THEN SizeofPtr
                                 ELSE SizeofT),
     obj |-> v]

\* The overload the compiler selects for the object.
SecureEraseTyped(hs, v) ==
    CASE v.st = "span" -> SecureEraseSpan(hs, v)
      [] v.st = "string" -> SecureEraseString(hs, v)
      [] v.st = "array" -> SecureEraseArray(hs, v)
      [] v.st = "vector" -> SecureEraseVector(hs, v)
      [] OTHER -> SecureEraseValue(hs, v)

SeqKinds == {"span", "string", "array", "vector"}

\* -------------------------------------------------------------- SpecTyped

\* A behaviour follows one object, as a test does.
\* A sequence object comes into being: its storage of cap elements at b (a
\* string's has one more, for the terminator); a span views size elements
\* of it from element off on; a vector may be empty with no storage.
MakeSeq(kind, b, cap, off, size) ==
    /\ vec.st = "none"
    /\ kind = "array" => size = cap
    /\ kind # "span" => off = 0
    /\ off + size <= cap
    /\ cap = 0 => kind = "vector" /\ b = NULL
    /\ LET bytes == (IF kind = "string" THEN cap + 1 ELSE cap) * SizeofT
       IN /\ cap > 0 => b \in CanPlace(live, bytes)
          /\ live' = IF cap = 0 THEN live
                     ELSE live \cup {[base |-> b, bytes |-> bytes]}
          /\ mem' = IF kind = "string"
                    THEN StoreElem(mem, ElemAddr(b, size), 0)
                    ELSE mem
    /\ vec' = [st |-> kind,
               buf |-> IF cap = 0 THEN NULL ELSE ElemAddr(b, off),
               cap |-> cap - off, size |-> size]
    /\ pre' = mem
    /\ trace' = <<>>
    /\ last' = Call("make", b, cap, <<>>)
    /\ UNCHANGED conc
    /\ UNCHANGED <<arr, hd, copies, cnt>>

\* std::uint32_t i = x;  or  enum_type = x;
MakeScalar(b, x) ==
    /\ vec.st = "none"
    /\ b \in CanPlace(live, SizeofT)
    /\ live' = live \cup {[base |-> b, bytes |-> SizeofT]}
    /\ mem' = StoreElem(mem, b, x)
    /\ vec' = [st |-> "scalar", buf |-> b, cap |-> 1, size |-> 1]
    /\ pre' = mem
    /\ trace' = <<>>
    /\ last' = Call("make", b, 1, <<>>)
    /\ UNCHANGED conc
    /\ UNCHANGED <<arr, hd, copies, cnt>>

\* int i = x; int *p = &i;  -- i at q, p at b.
MakePointer(b, q, x) ==
    /\ vec.st = "none"
    /\ q \in CanPlace(live, SizeofT)
    /\ b \in CanPlace(live \cup {[base |-> q, bytes |-> SizeofT]}, SizeofPtr)
    /\ live' = live \cup {[base |-> q, bytes |-> SizeofT],
                          [base |-> b, bytes |-> SizeofPtr]}
    /\ mem' = StorePtr(StoreElem(mem, q, x), b, q)
    /\ vec' = [st |-> "pointer", buf |-> b, cap |-> 1, size |-> 1]
    /\ pre' = mem
    /\ trace' = <<>>
    /\ last' = Call("make", b, 1, <<>>)
    /\ UNCHANGED conc
    /\ UNCHANGED <<arr, hd, copies, cnt>>

\* elements[i] = x, anywhere in the storage the object has.
TypedStore(i, x) ==
    /\ vec.st \in SeqKinds
    /\ i < vec.cap
    /\ Commit([Now EXCEPT !.mem = StoreElem(@, ElemAddr(vec.buf, i), x)])
    /\ last' = Call("store", vec.buf, i, <<>>)
    /\ UNCHANGED conc
    /\ UNCHANGED <<vec, arr, hd, copies, cnt>>

\* SecUtil::SecureErase(object)
TypedErase ==
    /\ vec.st # "none"
    /\ LET r == SecureEraseTyped(Now, vec)
       IN /\ Commit(r.hs)
          /\ vec' = r.obj
    /\ last' = Call("SecureErase<>", vec.buf, vec.size, <<vec.st, vec.cap>>)
    /\ UNCHANGED conc
    /\ UNCHANGED <<arr, hd, copies, cnt>>

ElemCounts == 0..(MemSize \div SizeofT)

NextTyped ==
    \/ \E kind \in SeqKinds, b \in {NULL} \cup Addr,
          cap \in ElemCounts, off \in ElemCounts, size \in ElemCounts :
           MakeSeq(kind, b, cap, off, size)
    \/ \E b \in Addr, x \in Elem : MakeScalar(b, x)
    \/ \E b \in Addr, q \in Addr : MakePointer(b, q, MaxElem)
    \/ \E i \in ElemCounts : TypedStore(i, MaxElem)
    \/ TypedErase

SpecTyped == InitAlloc /\ [][NextTyped]_vars

\* C13: each typed overload of SecureErase zeroes exactly
\* size() * sizeof(element) bytes at data() (sizeof(T) bytes of the variable
\* for a scalar or a pointer) and no other byte, and leaves the object's
\* data(), size() / length() and capacity as they were: every element of a
\* span, array, vector or string reads zero, a scalar reads 0, a pointer
\* reads null and what it pointed to is unchanged.
C13_TypedEraseOwnStorageOnly ==
    last.op = "SecureErase<>" =>
        LET len == IF vec.st = "pointer" THEN SizeofPtr
                   ELSE vec.size * SizeofT
        IN /\ vec = [st |-> last.list[1], buf |-> last.p,
                     cap |-> last.list[2], size |-> last.n]
           /\ trace = <<Ev("erase", vec.buf, len, TRUE)>>
           /\ mem = Zeroed(pre, vec.buf, len)
           /\ vec.st \in SeqKinds \cup {"scalar"} =>
                  \A i \in 0..(vec.size - 1) :
                      LoadElem(mem, ElemAddr(vec.buf, i)) = 0
           /\ vec.st = "pointer" =>
                  /\ LoadPtr(mem, vec.buf) = NULL
                  /\ LoadPtr(pre, vec.buf) # NULL =>
                         LoadElem(mem, LoadPtr(pre, vec.buf)) =
                             LoadElem(pre, LoadPtr(pre, vec.buf))

\* A vector of two nonzero elements with room for a third, nonzero too, was
\* erased: the two read zero, the bytes past size() are as they were.
C13_Witness ==
    /\ last.op = "SecureErase<>"
    /\ vec.st = "vector" /\ vec.size = 2 /\ vec.cap = 3
    /\ \A i \in 0..2 : LoadElem(pre, ElemAddr(vec.buf, i)) # 0
    /\ \A i \in 0..1 : LoadElem(mem, ElemAddr(vec.buf, i)) = 0
    /\ LoadElem(mem, ElemAddr(vec.buf, 2)) # 0

\* ------------------------------------------- elements that own storage
\* SecureVector<SomeObject>: each element owns a buffer of its own (the
\* std::string inside SomeObject), obtained from the default allocator.
\* The element's bytes in the vector's buffer hold the address of that
\* inner buffer; the inner buffer holds the secret.

\* The bytes of an element's inner buffer.
InnerBytes == 1

\* The inner buffers of the vector's elements, first element first.
Inners(m, v) ==
    [i \in 1..v.size |-> LoadElem(m, ElemAddr(v.buf, i - 1))]

\* SomeObject(text): the string member allocates its buffer at q with the
\* default allocator and copies the text, byte s, into it.
HolderCtor(hs, q, s) ==
    LET r == OperatorNew(hs, InnerBytes, q)
    IN [r.hs EXCEPT !.mem = [@ EXCEPT ![q] = s]]

\* ~SomeObject() on the element at address p: the string member returns its
\* buffer through the default allocator, which erases nothing.
HolderDtor(hs, p) ==
    LET q == LoadElem(hs.mem, p)
    IN IF q = NULL THEN hs ELSE OperatorDelete(hs, q)

\* Destroy the first k elements of the vector.
RECURSIVE DestroyElems(_, _, _)
DestroyElems(hs, v, k) ==
    IF k = 0 THEN hs
    ELSE DestroyElems(HolderDtor(hs, ElemAddr(v.buf, k - 1)), v, k - 1)

\* ~vector() of a vector of SomeObject: the elements are destroyed, then
\* the buffer is released.
NestedDtor(hs, v) == VecDtor(DestroyElems(hs, v, v.size), v)

\* ------------------------------------------------------------ SpecNested

\* SecureVector<SomeObject> vec;  -- a behaviour follows one vector.
NestedConstruct ==
    /\ vec.st = "none"
    /\ vec' = [st |-> "alive", buf |-> NULL, cap |-> 0, size |-> 0]
    /\ Commit(Now)
    /\ last' = Call("vector", NULL, 0, <<>>)
    /\ UNCHANGED conc
    /\ UNCHANGED <<arr, hd, copies, cnt>>

\* vec.push_back(SomeObject(text)): the temporary is built first, its
\* inner buffer at q, and moved into the vector; when the vector's
\* allocation throws the temporary is destroyed.
NestedPushBack(q, s, b) ==
    /\ vec.st = "alive"
    /\ cnt.ctor < MaxHolders
    /\ cnt' = [cnt EXCEPT !.ctor = @ + 1]
    /\ q \in CanPlace(live, InnerBytes)
    /\ q < Pow(Base, SizeofT)
    /\ LET h1 == HolderCtor(Now, q, s)
       IN /\ IF vec.size < vec.cap THEN b = NULL
             ELSE b \in Places(h1.live, GrowCap(vec))
          /\ LET r == push_back(h1, vec, q, b)
             IN /\ Commit(IF r.err = "none" THEN r.hs
                         ELSE OperatorDelete(r.hs, q))
                /\ vec' = r.vec
    /\ last' = Call("push_back", vec.buf, vec.cap, Inners(mem, vec))
    /\ UNCHANGED conc
    /\ UNCHANGED <<arr, hd, copies>>

\* vec.pop_back(): the last element is destroyed where it is.
NestedPopBack ==
    /\ vec.st = "alive"
    /\ vec.size > 0
    /\ Commit(HolderDtor(Now, ElemAddr(vec.buf, vec.size - 1)))
    /\ vec' = [vec EXCEPT !.size = @ - 1]
    /\ last' = Call("pop_back", vec.buf, vec.cap, Inners(mem, vec))
    /\ UNCHANGED conc
    /\ UNCHANGED <<arr, hd, copies, cnt>>

\* vec.shrink_to_fit()
NestedShrinkToFit(b) ==
    /\ vec.st = "alive"
    /\ IF vec.size = vec.cap \/ vec.size = 0 THEN b = NULL
       ELSE b \in Places(live, vec.size)
    /\ LET r == shrink_to_fit(Now, vec, b)
       IN /\ Commit(r.hs)
          /\ vec' = r.vec
    /\ last' = Call("shrink_to_fit", vec.buf, vec.cap, Inners(mem, vec))
    /\ UNCHANGED conc
    /\ UNCHANGED <<arr, hd, copies, cnt>>

\* vec goes out of scope.
NestedDestroy ==
    /\ vec.st = "alive"
    /\ Commit(NestedDtor(Now, vec))
    /\ vec' = [st |-> "dead", buf |-> NULL, cap |-> 0, size |-> 0]
    /\ last' = Call("~vector", vec.buf, vec.cap, Inners(mem, vec))
    /\ UNCHANGED conc
    /\ UNCHANGED <<arr, hd, copies, cnt>>

NextNested ==
    \/ NestedConstruct
    \/ \E q \in Addr, b \in {NULL} \cup Addr : NestedPushBack(q, MaxByte, b)
    \/ NestedPopBack
    \/ \E b \in {NULL} \cup Addr : NestedShrinkToFit(b)
    \/ NestedDestroy

SpecNested == InitAlloc /\ [][NextNested]_vars

Instances == {"T1", "T2", "U1"}
TypeOf(a) == IF a \in {"T1", "T2"} THEN "T" ELSE "U"

\* An operator== that tells element types apart.
SecureAllocatorEqSameType(a, b) == TypeOf(a) = TypeOf(b)

\* template<typename U> bool operator==(const SecureAllocator<U> &) const
SecureAllocatorEq(a, b) == TRUE

\* a.allocate(n): the method reads nothing of *this.
InstAllocate(a, hs, n, b) == allocate(hs, n, b)

\* x.deallocate(p, n), x a SecureAllocator<T>, or the SecureAllocator<T>
\* the converting constructor makes of a SecureAllocator<U>: the
\* constructor copies nothing and the method reads nothing of *this.
InstDeallocate(x, hs, p, n) == deallocate(hs, p, n)

\* ------------------------------------------------------------- SpecInst

\* T *p = a.allocate(n);  -- hd notes the block and the instance it came
\* from.
InstAcquire(a, n, b) ==
    /\ hd.kind = "none"
    /\ TypeOf(a) = "T"
    /\ LET r == InstAllocate(a, Now, n, b)
       IN /\ Commit(r.hs)
          /\ last' = Call("allocate", r.ret, n, <<r.err>>)
          /\ hd' = IF r.err # "none" THEN hd
                   ELSE [kind |-> "raw", what |-> "block", ptr |-> r.ret,
                         size |-> n, by |-> a, alive |-> TRUE]
    /\ UNCHANGED conc
    /\ UNCHANGED <<vec, arr, copies, cnt>>

\* p[i] = x
InstStore(i, x) ==
    /\ hd.kind = "raw"
    /\ i < hd.size
    /\ Commit([Now EXCEPT !.mem = StoreElem(@, ElemAddr(hd.ptr, i), x)])
    /\ last' = Call("store", hd.ptr, i, <<>>)
    /\ UNCHANGED conc
    /\ UNCHANGED <<vec, arr, hd, copies, cnt>>

\* a == b
InstCompare(a, b) ==
    /\ Commit(Now)
    /\ last' = Call("==", NULL, 0,
                    <<a, b, IF SecureAllocatorEq(a, b) THEN "true"
                            ELSE "false">>)
    /\ UNCHANGED conc
    /\ UNCHANGED <<vec, arr, hd, copies, cnt>>

\* x.deallocate(p, n), through any instance.
InstRelease(x) ==
    /\ hd.kind = "raw"
    /\ Commit(InstDeallocate(x, Now, hd.ptr, hd.size))
    /\ last' = Call("deallocate", hd.ptr, hd.size, <<hd.by, x>>)
    /\ hd' = IdleHd
    /\ UNCHANGED conc
    /\ UNCHANGED <<vec, arr, copies, cnt>>

NextInst ==
    \/ \E a \in Instances, n \in 0..SizeMax :
           \E b \in Places(live, n) : InstAcquire(a, n, b)
    \/ \E i \in Counts : InstStore(i, MaxElem)
    \/ \E a \in Instances, b \in Instances : InstCompare(a, b)
    \/ \E x \in Instances : InstRelease(x)

SpecInst == InitAlloc /\ [][NextInst]_vars

\* C15: any two SecureAllocator instances compare equal, whatever their
\* element types, and storage that one instance acquired is released the
\* same way through any instance: one erase of n * sizeof(T) bytes at p
\* (none when n = 0), then the storage goes back to the system, and no other
\* byte changes.
C15_InstancesInterchangeable ==
    /\ \A a \in Instances, b \in Instances : SecureAllocatorEq(a, b)
    /\ last.op = "==" => last.list[3] = "true"
    /\ last.op = "deallocate" =>
           /\ trace = <<Ev("deallocate", last.p, last.n, TRUE)>>
                      \o (IF last.n > 0
                          THEN <<Ev("erase", last.p, last.n * SizeofT, TRUE)>>
                          ELSE <<>>)
                      \o <<Ev("free", last.p, last.n * SizeofT, TRUE)>>
           /\ mem = Zeroed(pre, last.p, last.n * SizeofT)
           /\ live = {}

\* Storage for two elements, nonzero, that a SecureAllocator<T> acquired
\* was released through the conversion of a SecureAllocator<U>.
C15_Witness ==
    /\ last.op = "deallocate"
    /\ last.list = <<"T1", "U1">>
    /\ last.n = 2
    /\ \A i \in 0..1 : LoadElem(pre, ElemAddr(last.p, i)) # 0
    /\ AllZero(mem, last.p, 2 * SizeofT)

\* --------------------------------------------- concurrent SecureErase
\* Threads call SecureErase at the same time.  A call goes through its
\* steps one at a time: the null / zero-length check, the volatile read of
\* the static memset_secure_func, and memset's stores, one byte each; the
\* steps of different threads interleave freely.  buffer, length and
\* memset's position are the thread's own; the function pointer is the
\* only static.

\* The extent of thread t's call, and the part of it written so far.
ThreadExtent(c, t) ==
    IF c.thr[t].buf = NULL THEN {} ELSE Extent(c.thr[t].buf, c.thr[t].len)
ThreadWritten(c, t) ==
    IF c.thr[t].buf = NULL THEN {} ELSE Extent(c.thr[t].buf, c.thr[t].i)

\* A store address taken from a buffer pointer kept in a static that the
\* last caller to start overwrote.
ConcTargetShared(c, t) ==
    LET u == CHOOSE w \in Threads :
                 /\ c.thr[w].pc # "idle"
                 /\ \A x \in Threads : c.thr[x].pc # "idle" => x <= w
    IN c.thr[u].buf + c.thr[t].i

\* The address of the next store of thread t's memset: buffer + i, both
\* the thread's own.
ConcTarget(c, t) == c.thr[t].buf + c.thr[t].i

\* --------------------------------------------------------------- SpecConc

\* Thread t calls SecureErase(p, n) on an extent that no other thread's
\* call works on.
ConcCall(t, p, n) ==
    /\ conc.thr[t].pc = "idle"
    /\ p = NULL \/ InMem(p, n)
    /\ \A u \in Threads \ {t} :
           (IF p = NULL THEN {} ELSE Extent(p, n))
               \cap ThreadExtent(conc, u) = {}
    /\ conc' = [conc EXCEPT !.thr[t] =
                   [pc |-> "check", buf |-> p, len |-> n, i |-> 0]]
    /\ trace' = Append(trace, Ev("call", p, n, t))
    /\ UNCHANGED <<mem, pre, last, live, vec, arr, hd, copies, cnt>>

\* if ((buffer == nullptr) || (length == 0)) return;
ConcCheck(t) ==
    /\ conc.thr[t].pc = "check"
    /\ conc' = [conc EXCEPT !.thr[t].pc =
                   IF conc.thr[t].buf = NULL \/ conc.thr[t].len = 0
                   THEN "done" ELSE "load"]
    /\ UNCHANGED <<mem, pre, last, trace, live, vec, arr, hd, copies, cnt>>

\* The volatile read of memset_secure_func: the call goes to memset.
ConcLoad(t) ==
    /\ conc.thr[t].pc = "load"
    /\ conc.fp = "memset"
    /\ conc' = [conc EXCEPT !.thr[t].pc = "store"]
    /\ UNCHANGED <<mem, pre, last, trace, live, vec, arr, hd, copies, cnt>>

\* One store of memset: the next byte of the extent is zeroed.
ConcStoreByte(t) ==
    /\ conc.thr[t].pc = "store"
    /\ mem' = memset_secure_func(mem, ConcTarget(conc, t), 0, 1)
    /\ conc' = [conc EXCEPT
                   !.thr[t].i = @ + 1,
                   !.thr[t].pc = IF conc.thr[t].i + 1 = conc.thr[t].len
                                 THEN "done" ELSE "store"]
    /\ trace' = Append(trace, Ev("store", ConcTarget(conc, t), 1, t))
    /\ UNCHANGED <<pre, last, live, vec, arr, hd, copies, cnt>>

NextConc ==
    \/ \E t \in Threads, p \in {NULL} \cup Addr, n \in 0..MemSize :
           ConcCall(t, p, n)
    \/ \E t \in Threads : ConcCheck(t)
    \/ \E t \in Threads : ConcLoad(t)
    \/ \E t \in Threads : ConcStoreByte(t)

SpecConc == InitAlloc /\ [][NextConc]_vars

\* C16: when threads call SecureErase at the same time on disjoint extents,
\* under every interleaving of their steps each byte of memory is zero if
\* its own thread has stored to it and is as it was otherwise, so a
\* finished call leaves its whole extent zero and no byte outside the
\* extents ever changes; every store of a thread falls in that thread's own
\* extent, and the static function pointer is never written.
C16_ConcurrentEraseDisjoint ==
    /\ conc.fp = "memset"
    /\ \A a \in Addr :
           mem[a] = IF \E t \in Threads : a \in ThreadWritten(conc, t)
                    THEN 0 ELSE pre[a]
    /\ \A t \in Threads :
           /\ ThreadWritten(conc, t) \subseteq ThreadExtent(conc, t)
           /\ (conc.thr[t].pc = "done" /\ conc.thr[t].buf # NULL) =>
                  AllZero(mem, conc.thr[t].buf, conc.thr[t].len)
    /\ \A k \in At(trace, "store") :
           trace[k].p \in ThreadExtent(conc, trace[k].f)

\* Two calls on disjoint extents of two bytes each, nonzero before, have
\* both finished with their stores interleaved, and a byte outside the two
\* extents is still nonzero.
C16_Witness ==
    /\ \A t \in {1, 2} :
           /\ conc.thr[t].pc = "done"
           /\ conc.thr[t].len = 2
           /\ conc.thr[t].buf # NULL
           /\ \A a \in ThreadExtent(conc, t) : pre[a] # 0 /\ mem[a] = 0
    /\ \E a \in Addr : mem[a] # 0
    /\ \E i, j, k \in At(trace, "store") :
           /\ i < j /\ j < k
           /\ trace[i].f = 1 /\ trace[j].f = 2 /\ trace[k].f = 1

\* --------------------------------------------- element types accepted
\* What the compiler does with an instantiation of a wrapper template.  An
\* element type is [cat, trivial, owns]: its category, whether its
\* destructor is trivial, whether it owns a resource through a member.

ScalarCats == {"arithmetic", "enum", "pointer"}

\* Erasing the bytes of a T before its destructor runs is safe.
ByteErasable(T) == T.trivial /\ ~T.owns

\* A SecureArray without the enable_if condition.
SecureArrayAcceptsAll(T) == TRUE

\* std::is_arithmetic<T>::value || std::is_enum<T>::value ||
\* std::is_pointer<T>::value
SecureArrayAccepts(T) == T.cat \in ScalarCats

\* template<typename T> struct SecureArrayDeleter: no condition on T.
SecureArrayDeleterAccepts(T) == TRUE

\* template<typename T> struct SecureObjectDeleter: no condition on T.
SecureObjectDeleterAccepts(T) == TRUE

Accepts(w, T) ==
    CASE w = "SecureArray" -> SecureArrayAccepts(T)
      [] w = "SecureArrayDeleter" -> SecureArrayDeleterAccepts(T)
      [] OTHER -> SecureObjectDeleterAccepts(T)

\* ------------------------------------------------------------- SpecTypes

\* The translation unit instantiates wrapper w with element type T; trace
\* keeps the instantiations so far and how each one fared.
Instantiate(w, T) ==
    /\ Len(trace) < MaxInst
    /\ last' = Call("instantiate", NULL, 0,
                    <<w, T, IF Accepts(w, T) THEN "compiles"
                            ELSE "rejected">>)
    /\ trace' = Append(trace, Ev("instantiate", w, T, Accepts(w, T)))
    /\ UNCHANGED <<mem, pre, live, vec, arr, hd, copies, cnt, conc>>

NextTypes ==
    \E w \in {"SecureArray", "SecureArrayDeleter", "SecureObjectDeleter"},
       T \in {[cat |-> c, trivial |-> TRUE, owns |-> FALSE] :
                  c \in ScalarCats}
             \cup {[cat |-> "class", trivial |-> t, owns |-> o] :
                       t \in BOOLEAN, o \in BOOLEAN} :
        Instantiate(w, T)

SpecTypes == InitAlloc /\ [][NextTypes]_vars

\* C17 (as amended): SecureArray<T, N> compiles exactly for arithmetic,
\* enum and pointer element types, every one of which is safe to erase
\* byte-wise, and is rejected for every other type; SecureArrayDeleter<T>
\* and SecureObjectDeleter<T> compile for every element type, those with a
\* non-trivial destructor or an owned resource included.
C17_OnlySecureArrayIsGated ==
    last.op = "instantiate" =>
        LET w == last.list[1]
            T == last.list[2]
            ok == last.list[3] = "compiles"
        IN /\ w = "SecureArray" =>
                  /\ ok <=> T.cat \in ScalarCats
                  /\ ok => ByteErasable(T)
           /\ w \in {"SecureArrayDeleter", "SecureObjectDeleter"} => ok

\* SecureObjectDeleter was instantiated with a class type that has a
\* non-trivial destructor, and compiled.
C17_Witness ==
    /\ last.op = "instantiate"
    /\ last.list[1] = "SecureObjectDeleter"
    /\ last.list[2].cat = "class"
    /\ ~last.list[2].trivial
    /\ last.list[3] = "compiles"

\* C17 as stated: an instantiation of any of the three wrappers with an
\* element type that is not safe to erase byte-wise is rejected.
C17_Original ==
    (last.op = "instantiate" /\ ~ByteErasable(last.list[2])) =>
        last.list[3] = "rejected"

\* -------------------------------------------------- order inside a deleter

\* C19: in both deleters the steps come in the order erase, element
\* destructors, deallocation.  Whenever a deleter runs on a non-null
\* pointer, the one SecureErase call precedes every destructor run and every
\* destructor run precedes the one ::operator delete; every element that
\* was constructed is destroyed exactly once; and for an object, or for an
\* array whose deleter count is the number of its elements, every destructor
\* finds the bytes of its element all zero.
C19_EraseThenDtorsThenFree ==
    (last.op \in {"~unique_ptr", "reset", "dispose"} /\ last.p # NULL) =>
        LET E == At(trace, "erase")
            D == At(trace, "dtor")
            F == At(trace, "free")
            covered == hd.what = "object" \/ last.n = cnt.ctor
        IN /\ Cardinality(E) = 1
           /\ Cardinality(F) = 1
           /\ \A e \in E, d \in D : e < d
           /\ \A d \in D, f \in F : d < f
           /\ Cardinality(D) = cnt.ctor
           /\ {trace[d].p : d \in D} =
                  {ElemAddr(last.p, i) : i \in 0..(cnt.ctor - 1)}
           /\ cnt.dtor = cnt.ctor
           /\ covered => \A d \in D : trace[d].f

\* The last copy of a shared handle from MakeSharedSecureArray on two
\* elements, both nonzero, was dropped: two destructors ran, each on zeroed
\* bytes, between the erase and the release of the storage.
C19_Witness ==
    /\ hd.what = "array" /\ hd.kind = "shared" /\ hd.by = "make"
    /\ last.op = "dispose"
    /\ last.p # NULL
    /\ last.n = 2
    /\ \A i \in 0..1 : LoadElem(pre, ElemAddr(last.p, i)) # 0
    /\ Len(trace) = 5
    /\ trace[3].op = "dtor" /\ trace[3].f
    /\ trace[4].op = "dtor" /\ trace[4].f
    /\ trace[3].p # trace[4].p
    /\ cnt.dtor = 2

\* C20: the extent a SecureArrayDeleter erases is its size field times
\* sizeof(T), whatever array it is handed.  With the size field of a
\* default-constructed deleter (0) and a non-null array, the SecureErase
\* call has length 0 and changes no byte, the elements are destroyed and the
\* storage is released all the same, and the bytes released are zero only
\* if they already were before the deleter ran.
C20_ErasedExtentIsStoredCount ==
    (hd.what = "array" /\ last.op \in {"~unique_ptr", "reset", "dispose"}
                       /\ last.p # NULL) =>
        LET F == At(trace, "free")
        IN /\ At(trace, "erase") = {2}
           /\ trace[2].p = last.p
           /\ trace[2].n = last.n * SizeofT
           /\ mem = Zeroed(pre, last.p, last.n * SizeofT)
           /\ F = {Len(trace)}
           /\ trace[Len(trace)].p = last.p
           /\ trace[Len(trace)].n = cnt.ctor * SizeofT
           /\ ~IsLive(live, last.p)
           /\ last.n = DefaultArrayDeleterSize =>
                  /\ mem = pre
                  /\ trace[Len(trace)].f =
                         AllZero(pre, last.p, cnt.ctor * SizeofT)

\* A unique handle built by hand with a default-constructed deleter on an
\* array of two elements, both nonzero, was destroyed: nothing was erased and
\* the storage went back with the values in it.
C20_Witness ==
    /\ hd.what = "array" /\ hd.kind = "unique" /\ hd.by = "custom"
    /\ last.op = "~unique_ptr"
    /\ last.p # NULL
    /\ last.n = DefaultArrayDeleterSize
    /\ cnt.ctor = 2
    /\ \A i \in 0..1 : LoadElem(mem, ElemAddr(last.p, i)) # 0
    /\ mem = pre
    /\ trace[2] = Ev("erase", last.p, 0, TRUE)
    /\ ~trace[Len(trace)].f
    /\ live = {}

\* ------------------------------------------- construct, destroy, removal

\* A destroy that erases the element it destroys.
destroyErasing(hs, p) ==
    CallErase(Note(hs, Ev("destroy", p, 1, TRUE)), p, SizeofT)

\* void destroy(T *p): p->~T(), which for the element types of the
\* containers here writes nothing.
destroy(hs, p) == Note(hs, Ev("destroy", p, 1, TRUE))

\* void construct(U *p, Args &&...args): placement new of the value x at p.
construct(hs, p, x) ==
    Note([hs EXCEPT !.mem = StoreElem(@, p, x)], Ev("construct", p, x, TRUE))

\* construct the elements i, ..., n - 1 of the buffer at buf with x.
RECURSIVE ConstructFrom(_, _, _, _, _)
ConstructFrom(hs, buf, i, n, x) ==
    IF i >= n THEN hs
    ELSE ConstructFrom(construct(hs, ElemAddr(buf, i), x), buf, i + 1, n, x)

\* destroy the elements i, ..., n - 1 of the buffer at buf.
RECURSIVE DestroyFrom(_, _, _, _)
DestroyFrom(hs, buf, i, n) ==
    IF i >= n THEN hs
    ELSE DestroyFrom(destroy(hs, ElemAddr(buf, i)), buf, i + 1, n)

\* SecureVector<T> vec(n, x): storage for n elements, each constructed
\* with x; nothing exists when allocate throws.
VecFill(hs, n, x, b) ==
    LET r == IF n = 0
             THEN [hs |-> hs, ret |-> NULL, err |-> "none"]
             ELSE allocate(hs, n, b)
    IN IF r.err # "none"
       THEN [hs |-> r.hs, vec |-> IdleVec, err |-> r.err]
       ELSE [hs |-> ConstructFrom(r.hs, r.ret, 0, n, x),
             vec |-> [st |-> "alive", buf |-> r.ret, cap |-> n, size |-> n],
             err |-> "none"]

\* void resize(size_type k) with k <= size(): the elements from k on are
\* destroyed; buffer and capacity stay.
resize_down(hs, v, k) ==
    [hs |-> DestroyFrom(hs, v.buf, k, v.size), vec |-> [v EXCEPT !.size = k]]

\* void pop_back()
pop_back(hs, v) == resize_down(hs, v, v.size - 1)

\* void clear()
clear(hs, v) == resize_down(hs, v, 0)

\* ~vector() with the destroy calls shown.
RemoveDtor(hs, v) == VecDtor(DestroyFrom(hs, v.buf, 0, v.size), v)

\* ------------------------------------------------------------ SpecRemove
\* One vector from its construction to its destruction.

\* SecureVector<T> vec(n, x);
RemoveConstruct(n, x, b) ==
    /\ vec.st = "none"
    /\ last.op = "none"
    /\ b \in (IF n = 0 THEN {NULL} ELSE Places(live, n))
    /\ LET r == VecFill(Now, n, x, b)
       IN /\ CommitVec(r.hs, r.vec)
          /\ vec' = r.vec
          /\ last' = Call("vector(n, x)", r.vec.buf, n, <<x, r.err>>)
    /\ UNCHANGED conc
    /\ UNCHANGED <<arr, hd, copies>>

\* vec.push_back(x)
RemovePushBack(x, b) ==
    /\ vec.st = "alive"
    /\ cnt.allocs < MaxCalls /\ cnt.ctor < MaxCalls
    /\ IF vec.size < vec.cap THEN b = NULL ELSE b \in Places(live, GrowCap(vec))
    /\ LET r == push_back(Now, vec, x, b)
       IN /\ CommitVec(r.hs, r.vec)
          /\ vec' = r.vec
          /\ last' = Call("push_back", vec.buf, x, <<>>)
    /\ UNCHANGED conc
    /\ UNCHANGED <<arr, hd, copies>>

\* vec.pop_back()
RemovePopBack ==
    /\ vec.st = "alive"
    /\ vec.size > 0
    /\ LET r == pop_back(Now, vec)
       IN /\ CommitVec(r.hs, r.vec)
          /\ vec' = r.vec
          /\ last' = Call("pop_back", vec.buf, 1, <<vec.cap, vec.size>>)
    /\ UNCHANGED conc
    /\ UNCHANGED <<arr, hd, copies>>

\* vec.clear()
RemoveClear ==
    /\ vec.st = "alive"
    /\ LET r == clear(Now, vec)
       IN /\ CommitVec(r.hs, r.vec)
          /\ vec' = r.vec
          /\ last' = Call("clear", vec.buf, vec.size, <<vec.cap, vec.size>>)
    /\ UNCHANGED conc
    /\ UNCHANGED <<arr, hd, copies>>

\* vec.resize(k) with k < vec.size()
RemoveResize(k) ==
    /\ vec.st = "alive"
    /\ k < vec.size
    /\ LET r == resize_down(Now, vec, k)
       IN /\ CommitVec(r.hs, r.vec)
          /\ vec' = r.vec
          /\ last' = Call("resize", vec.buf, vec.size - k,
                          <<vec.cap, vec.size>>)
    /\ UNCHANGED conc
    /\ UNCHANGED <<arr, hd, copies>>

\* vec goes out of scope.
RemoveDestroy ==
    /\ vec.st = "alive"
    /\ CommitVec(RemoveDtor(Now, vec), vec)
    /\ vec' = [st |-> "dead", buf |-> NULL, cap |-> 0, size |-> 0]
    /\ last' = Call("~vector", vec.buf, vec.size, <<vec.cap, vec.size>>)
    /\ UNCHANGED conc
    /\ UNCHANGED <<arr, hd, copies>>

NextRemove ==
    \/ \E n \in ElemCounts, x \in Elem, b \in {NULL} \cup Addr :
           RemoveConstruct(n, x, b)
    \/ \E x \in Elem, b \in {NULL} \cup Addr : RemovePushBack(x, b)
    \/ RemovePopBack
    \/ RemoveClear
    \/ \E k \in ElemCounts : RemoveResize(k)
    \/ RemoveDestroy

SpecRemove == InitAlloc /\ [][NextRemove]_vars

\* C21: SecureAllocator erases only inside deallocate.  Building a vector
\* of n elements (allocate, then construct n times) makes no SecureErase
\* call and changes no byte other than the n elements, which hold the value
\* they were constructed with; removing elements by pop_back, clear or a
\* resize to a smaller size destroys them, once each, makes no SecureErase
\* call, releases nothing and changes no byte, the buffer and the capacity
\* staying as they were; and when the vector is destroyed afterwards its
\* whole buffer, the room of the removed elements included, is zero when it
\* is released.
C21_OnlyDeallocateErases ==
    /\ last.op = "vector(n, x)" =>
           /\ At(trace, "erase") = {}
           /\ last.list[2] # "none" => mem = pre
           /\ last.list[2] = "none" =>
                  /\ Count(trace, "construct") = last.n
                  /\ \A i \in 0..(last.n - 1) :
                         LoadElem(mem, ElemAddr(last.p, i)) = last.list[1]
                  /\ \A a \in Addr \ Extent(last.p, last.n * SizeofT) :
                         mem[a] = pre[a]
    /\ last.op \in {"pop_back", "clear", "resize"} =>
           /\ At(trace, "destroy") = DOMAIN trace
           /\ Len(trace) = last.n
           /\ {trace[i].p : i \in DOMAIN trace} =
                  {ElemAddr(last.p, i) :
                       i \in (last.list[2] - last.n)..(last.list[2] - 1)}
           /\ mem = pre
           /\ vec.buf = last.p
           /\ vec.cap = last.list[1]
           /\ vec.size = last.list[2] - last.n
           /\ last.p # NULL =>
                  /\ IsLive(live, last.p)
                  /\ BlockAt(live, last.p).bytes = vec.cap * SizeofT
    /\ (last.op = "~vector" /\ last.p # NULL) =>
           /\ Count(trace, "destroy") = last.n
           /\ At(trace, "erase") = {Len(trace) - 1}
           /\ trace[Len(trace) - 1] =
                  Ev("erase", last.p, last.list[1] * SizeofT, TRUE)
           /\ \A d \in At(trace, "destroy") : d < Len(trace) - 1
           /\ trace[Len(trace)] =
                  Ev("free", last.p, last.list[1] * SizeofT, TRUE)
           /\ live = {}

\* A vector built with two nonzero elements was cleared: it is empty, it
\* still owns its buffer, and both values are still in it.
C21_Witness ==
    /\ last.op = "clear"
    /\ last.n = 2
    /\ vec.size = 0
    /\ vec.buf # NULL
    /\ IsLive(live, vec.buf)
    /\ \A i \in 0..1 : LoadElem(mem, ElemAddr(vec.buf, i)) # 0
    /\ \E a \in Addr \ Extent(vec.buf, 2 * SizeofT) : mem[a] = 0

====
